---- MODULE Spec2Model ----
(***************************************************************************)
(* A model of radman2: the RadMan2 serial session (radman2.py) with its    *)
(* background measurement loop.  One caller thread constructs the session  *)
(* and then calls its methods one after the other; every thread that       *)
(* start_measurement() creates runs measurement_loop() and interleaves     *)
(* freely with the caller.  Byte strings and text are sequences of         *)
(* one-character strings.  A second part models radhaz_standards.py (the   *)
(* FCC 96-326 limit tables, their lookups and conversions) and the         *)
(* handle_data() callback of __main__.py, under the specification StdSpec. *)
(***************************************************************************)
EXTENDS Integers, Sequences, FiniteSets, TLC

\* ------------------------------------------------------------------ bounds
MaxCalls == 2        \* method calls the caller makes after construction
MaxReads == 2        \* loop iterations (line reads) started over all loops
MaxLoops == 2        \* Thread objects that can be created

\* ------------------------------------------------------- text primitives
BadByte == "xFF"     \* a byte that is not valid UTF-8
Whitespace == {" ", "\n", "\r", "\t"}
Digits == {"0", "1", "2", "3", "4", "5", "6", "7", "8", "9"}
None == <<"None">>   \* Python's None, told apart from every decoded text

\* bytes.decode(): UnicodeDecodeError on a byte that is not UTF-8
CanDecode(b) == \A i \in 1..Len(b) : b[i] # BadByte

RECURSIVE lstrip(_)
lstrip(s) == IF s # <<>> /\ Head(s) \in Whitespace THEN lstrip(Tail(s)) ELSE s

RECURSIVE rstrip(_)
rstrip(s) ==
  IF s # <<>> /\ s[Len(s)] \in Whitespace
  THEN rstrip(SubSeq(s, 1, Len(s) - 1))
  ELSE s

\* str.strip()
strip(s) == rstrip(lstrip(s))

\* s[:-1]
DropLast(s) == SubSeq(s, 1, Len(s) - 1)

RECURSIVE splitFrom(_, _)
splitFrom(s, cur) ==
  IF s = <<>> THEN <<cur>>
  ELSE IF Head(s) = "," THEN <<cur>> \o splitFrom(Tail(s), <<>>)
  ELSE splitFrom(Tail(s), Append(cur, Head(s)))

\* str.split(',')
split(s) == splitFrom(s, <<>>)

\* float(x) succeeds; on the alphabet of the modelled lines a float is a
\* non-empty run of decimal digits
IsFloat(f) == f # <<>> /\ \A i \in 1..Len(f) : f[i] \in Digits

DigitVal(c) == CHOOSE n \in 0..9 : ToString(n) = c

RECURSIVE floatValue(_)
floatValue(f) ==
  IF f = <<>> THEN 0
  ELSE 10 * floatValue(DropLast(f)) + DigitVal(f[Len(f)])

\* ------------------------------------------------------- what the device sends
EmptyLine == <<>>    \* readline() timed out
ReplyOk == <<"0", ";", "\r", "\n">>
ReplyErr == <<"1", ";", "\r", "\n">>
ReplyBad == <<BadByte, "\n">>
Dev10 ==
  <<"a", ",", "b", ",", "c", ",", "d", ",", "e", ",", "f", ",", "g", ",",
    "h", ",", "2", ",", "j", ";", "\r", "\n">>
Dev9 ==
  <<"a", ",", "b", ",", "c", ",", "d", ",", "e", ",", "f", ",", "g", ",",
    "h", ",", "2", ";", "\r", "\n">>
Dev11 ==
  <<"a", ",", "b", ",", "c", ",", "d", ",", "e", ",", "f", ",", "g", ",",
    "h", ",", "2", ",", "j", ",", "k", ";", "\r", "\n">>
Probe12 ==
  <<"p", ",", "q", ",", "r", ",", "s", ",", "t", ",", "E", ",", "1", ",",
    "2", ",", "3", ",", "4", ",", "y", ",", "F", ";", "\r", "\n">>
Probe12Bad ==
  <<"p", ",", "q", ",", "r", ",", "s", ",", "t", ",", "E", ",", "1", ",",
    "x", ",", "3", ",", "4", ",", "y", ",", "F", ";", "\r", "\n">>
Probe11 ==
  <<"p", ",", "q", ",", "r", ",", "s", ",", "t", ",", "E", ",", "1", ",",
    "2", ",", "3", ",", "4", ",", "y", ";", "\r", "\n">>

\* the replies readline() can return inside command(), by command
Replies(c) ==
  CASE c = "DEVICE_INFO?" -> {Dev10, Dev9, Dev11, EmptyLine}
    [] c = "Probe_INFO?" -> {Probe12, Probe12Bad, Probe11}
    [] c \in {"REMOTE ON", "REMOTE OFF"} -> {ReplyOk, ReplyErr, ReplyBad}
    [] OTHER -> {EmptyLine}

Meas1 ==
  <<"0", ",", "8", ",", "0", ",", "O", "K", ",", "O", "K", ",",
    "1", "0", "0", ";", "\r", "\n">>
Meas2 ==
  <<"2", "5", ",", "1", "2", ",", "0", ",", "O", "K", ",", "N", "O", ",",
    "9", "9", ";", "\r", "\n">>
Meas7Fields ==
  <<"0", ",", "8", ",", "0", ",", "O", "K", ",", "O", "K", ",",
    "1", "0", "0", ",", "7", ";", "\r", "\n">>
MeasNotNumeric ==
  <<"x", ",", "8", ",", "0", ",", "O", "K", ",", "O", "K", ",",
    "1", "0", "0", ";", "\r", "\n">>
MeasUndecodable ==
  <<"0", ",", BadByte, ",", "0", ",", "O", "K", ",", "O", "K", ",",
    "1", "0", "0", ";", "\r", "\n">>

\* the lines readline() can return inside measurement_loop()
MeasLines ==
  {Meas1, Meas2, Meas7Fields, MeasNotNumeric, MeasUndecodable, EmptyLine}

\* ------------------------------------------- radhaz_standards.py: numbers
\* Frequencies are whole kHz (3.0 MHz is 3000); a limit or a field strength is
\* kept exact: the rational q, or its square root.
RECURSIVE GCD(_, _)
GCD(a, b) == IF b = 0 THEN a ELSE GCD(b, a % b)

\* n / d in lowest terms
Rat(n, d) == [num |-> n \div GCD(n, d), den |-> d \div GCD(n, d)]

Exact(n, d) == [root |-> 1, q |-> Rat(n, d)]
Sqrt(n, d) == [root |-> 2, q |-> Rat(n, d)]
Zero == Exact(0, 1)
One == Exact(1, 1)
NoValue == [root |-> 0, q |-> Rat(0, 1)]   \* nothing was returned

Abs(x) == IF x < 0 THEN 0 - x ELSE x

\* np.arange(lo, hi, 0.01): ceil((hi - lo) / step) entries from lo upwards
Step == 10
arange(lo, hi) ==
  [i \in 1..((hi - lo + Step - 1) \div Step) |-> lo + Step * (i - 1)]

\* the six bands init_tables_occupational() appends one after the other
Band1 == arange(3, 100)
Band2 == arange(100, 3000)
Band3 == arange(3000, 30000)
Band4 == arange(30000, 100000)
Band5 == arange(100000, 300000)
Band6 == arange(300000, 3000000)

\* self.frequency_mhz as init_tables_occupational() leaves it
OccupationalTable == Band1 \o Band2 \o Band3 \o Band4 \o Band5 \o Band6

\* self.frequency_mhz of FCC96326(occupational)
frequency_mhz(occupational) ==
  IF occupational THEN OccupationalTable ELSE <<>>

\* the band entry idx of the occupational table was appended with
BandOf(idx) ==
  IF idx <= Len(Band1) THEN 1
  ELSE IF idx <= Len(Band1) + Len(Band2) THEN 2
  ELSE IF idx <= Len(Band1) + Len(Band2) + Len(Band3) THEN 3
  ELSE IF idx <= Len(Band1) + Len(Band2) + Len(Band3) + Len(Band4) THEN 4
  ELSE IF idx <= Len(Band1) + Len(Band2) + Len(Band3) + Len(Band4) + Len(Band5)
       THEN 5
  ELSE 6

\* self.efield[idx] where the table frequency is f: 614, 614, 1842/f, 61.4,
\* 61.4, sqrt(f/300 * 377) with f in MHz
efield(idx, f) ==
  CASE BandOf(idx) \in {1, 2} -> Exact(614, 1)
    [] BandOf(idx) = 3 -> Exact(1842 * 1000, f)
    [] BandOf(idx) \in {4, 5} -> Exact(614, 10)
    [] BandOf(idx) = 6 -> Sqrt(f * 377, 300 * 1000)

\* self.hfield[idx]: 163, 16.3/f, 16.3/f, 16.3/f, 0.163, sqrt(f/300 / 377)
hfield(idx, f) ==
  CASE BandOf(idx) = 1 -> Exact(163, 1)
    [] BandOf(idx) \in {2, 3, 4} -> Exact(163 * 100, f)
    [] BandOf(idx) = 5 -> Exact(163, 1000)
    [] BandOf(idx) = 6 -> Sqrt(f, 300 * 1000 * 377)

\* how many entries of the ascending table are below f, looked for between
\* lo and hi
RECURSIVE Below(_, _, _, _)
Below(table, f, lo, hi) ==
  IF lo = hi THEN lo
  ELSE LET mid == (lo + hi) \div 2 IN
         IF table[mid + 1] < f
         THEN Below(table, f, mid + 1, hi)
         ELSE Below(table, f, lo, mid)

\* the last entry not above f, the first entry when all are above
argminBelow(table, f) ==
  LET k == Below(table, f + 1, 0, Len(table)) IN IF k = 0 THEN 1 ELSE k

\* np.abs(table - f).argmin() on a non-empty table: the first index of the
\* smallest distance; the table ascends, so it is one of the two entries
\* around f
argmin(table, f) ==
  LET k == Below(table, f, 0, Len(table)) IN
    IF k = 0 THEN 1
    ELSE IF k = Len(table) THEN k
    ELSE IF f - table[k] <= table[k + 1] - f THEN k
    ELSE k + 1

\* line 124: the nearest match is more than 1.0 MHz away
FarKHz == 1000
FarFromMatch(distance) == distance > FarKHz

\* what a call gave: its value or the exception it raised, the table
\* frequency it matched, whether it warned, how many table lookups and
\* logarithms it made
NoMatch == -1
Outcome(v, e, m, w, l, g) ==
  [value |-> v, error |-> e, match |-> m, warned |-> w, lookups |-> l,
   logs |-> g]

\* efield_limit() for which = "e", hfield_limit() for which = "h": argmin of
\* an empty array raises ValueError
field_limit(which, occupational, f) ==
  LET table == frequency_mhz(occupational) IN
    IF Len(table) = 0
    THEN Outcome(NoValue, "ValueError", NoMatch, FALSE, 1, 0)
    ELSE LET idx == argmin(table, f) IN
           Outcome(IF which = "e" THEN efield(idx, table[idx])
                                  ELSE hfield(idx, table[idx]),
                   "", table[idx], FarFromMatch(Abs(table[idx] - f)), 1, 0)

\* 10 ** (_percentage_db / 20.0) for _percentage_db = 10 * log10(x): the
\* square root of x, exactly 1 for x = 1
FieldRatio(x) == IF x = Rat(1, 1) THEN One ELSE [root |-> 2, q |-> x]

\* ratio * limit
Times(ratio, limit) ==
  IF ratio = One THEN limit ELSE [root |-> 3, q |-> ratio.q, of |-> limit]

\* the conversion without its zero case: log10(0) is -inf and the ratio 0
percentage_to_field_unguarded(which, occupational, percentage, f) ==
  LET limit == field_limit(which, occupational, f) IN
    IF limit.error # ""
    THEN [limit EXCEPT !.logs = 1]
    ELSE [limit EXCEPT
            !.logs = 1,
            !.value = IF percentage.num = 0
                      THEN Zero
                      ELSE Times(FieldRatio(Rat(percentage.num,
                                                percentage.den * 100)),
                                 limit.value)]

\* percentage_to_efield() / percentage_to_hfield(): percentage is a number
\* num / den
percentage_to_field(which, occupational, percentage, f) ==
  IF percentage.num = 0
  THEN Outcome(Zero, "", NoMatch, FALSE, 0, 0)
  ELSE LET x == Rat(percentage.num, percentage.den * 100)
           limit == field_limit(which, occupational, f)
       IN IF limit.error # ""
          THEN [limit EXCEPT !.logs = 1]
          ELSE [limit EXCEPT !.logs = 1,
                             !.value = Times(FieldRatio(x), limit.value)]

\* x in y for two texts
Contains(needle, hay) ==
  \E i \in 0..(Len(hay) - Len(needle)) :
    SubSeq(hay, i + 1, i + Len(needle)) = needle

NameOccupational ==
  <<"F", "C", "C", " ", "9", "6", "-", "3", "2", "6", " ", "/", " ", "O",
    "c", "c", "u", "p", "a", "t", "i", "o", "n", "a", "l">>

NameOccupationalWithin ==
  <<"(", "F", "C", "C", " ", "9", "6", "-", "3", "2", "6", " ", "/", " ",
    "O", "c", "c", "u", "p", "a", "t", "i", "o", "n", "a", "l", ")">>

NameGeneralPublic ==
  <<"F", "C", "C", " ", "9", "6", "-", "3", "2", "6", " ", "/", " ", "G",
    "e", "n", "e", "r", "a", "l", " ", "P", "u", "b", "l", "i", "c">>

NameLowerCase ==
  <<"f", "c", "c", " ", "9", "6", "-", "3", "2", "6", " ", "/", " ", "o",
    "c", "c", "u", "p", "a", "t", "i", "o", "n", "a", "l">>

NameCutShort ==
  <<"F", "C", "C", " ", "9", "6", "-", "3", "2", "6", " ", "/", " ", "O",
    "c", "c", "u", "p", "a", "t", "i", "o", "n", "a">>

\* the standard_name values a probe can report
StandardNames ==
  {NameOccupational, NameOccupationalWithin, NameGeneralPublic, NameLowerCase,
   NameCutShort, <<>>}

\* choose_standard(): the occupational standard or None
choose_standard(standard_name) ==
  IF Contains(NameOccupational, standard_name) THEN "occupational" ELSE "None"

\* ------------------------------------------------------------------- state
VARIABLES
  measurement_running,  \* self.measurement_running
  port,                 \* self.s: "none" (not created), "open", "closed"
  written,              \* what self.s.write() has sent, in order
  callback,             \* a callback is registered (self.callback is not None)
  auto,                 \* __init__'s auto argument
  device_info,          \* self.device_info
  probe_info,           \* self.probe_info
  caller,               \* the caller thread: where it is and its locals
  loops,                \* the measurement threads: where each is, its _fields,
                        \* how the callback of this iteration ended
  readlog,              \* every line measurement_loop() got from readline()
  delivered,            \* every sample passed to self.callback, in order
  std                   \* the limit standard in use and its last call

vars ==
  <<measurement_running, port, written, callback, auto, device_info,
    probe_info, caller, loops, readlog, delivered, std>>

DeviceInfoKeys ==
  <<"product_name", "production_id", "serial_number", "device_id",
    "device_type", "firmware_version", "calibration_date", "calibration_due",
    "num_options", "options_name">>

ProbeInfoKeys ==
  <<"product_name", "production_id", "serial_number", "calibration_date",
    "calibration_due", "field_type">>

ProbeInfoOptionalKeys ==
  <<"e_field_lower_frequency_hz", "e_field_upper_frequency_hz",
    "h_field_lower_frequency_hz", "h_field_upper_frequency_hz", "shaped",
    "standard_name">>

Range(s) == {s[i] : i \in 1..Len(s)}

\* a dict is the set of its (key, value) items; NoDict: the attribute is not set
NoDict == {}

\* no call of the standard made yet
NoCall ==
  [fn |-> "", frequency |-> 0, percentage |-> [num |-> 0, den |-> 1],
   result |-> Outcome(NoValue, "", NoMatch, FALSE, 0, 0), report |-> <<>>]

\* __main__.py line 73: standard = None
StdStart ==
  [pc |-> "choose", standard |-> "None", name |-> <<>>, last |-> NoCall]

\* the threads created so far
Started == {t \in 1..MaxLoops : loops[t].pc # "unborn"}

Alive(t) == loops[t].pc \in {"while", "read", "reading", "parse", "callback"}

Init ==
  /\ measurement_running = FALSE
  /\ port = "none"
  /\ written = <<>>
  /\ callback \in BOOLEAN
  /\ auto \in BOOLEAN
  /\ device_info = NoDict
  /\ probe_info = NoDict
  /\ caller =
       [pc |-> "connect", op |-> "init", cmd |-> "", noreply |-> FALSE,
        cont |-> "", ret |-> None, raised |-> FALSE, status |-> FALSE,
        run0 |-> FALSE, w0 |-> 0, t0 |-> 0, d0 |-> 0,
        calls |-> 0]
  /\ loops = [t \in 1..MaxLoops |->
                [pc |-> "unborn", fields |-> <<>>, cb |-> "none"]]
  /\ readlog = <<>>
  /\ delivered = <<>>
  /\ std = StdStart

\* ------------------------------------------------------ RadMan2.command()
\* the mode guard left out
CommandNeverBlocked == FALSE

\* the mode guard letting the stop command through
CommandBlockedButStop == measurement_running /\ caller.cmd # "MEAS_STOP_CIB"

\* line 200: the mode guard
CommandBlocked == measurement_running

\* command.encode() + b';'
Frame(c) == <<c, ";">>

\* a call of self.command(c, noreply=n); k is where the calling method goes on
Call(c, n, k) ==
  [caller EXCEPT !.pc = "cmd_guard", !.cmd = c, !.noreply = n, !.cont = k]

\* a method of the caller returns to the caller, its locals are gone
Finish(c) == [c EXCEPT !.pc = "idle", !.cmd = "", !.cont = ""]

\* command() returns v: to the calling method, or to the caller
Return(v) ==
  IF caller.cont = "idle"
  THEN [Finish(caller) EXCEPT !.ret = v]
  ELSE [caller EXCEPT !.pc = caller.cont, !.ret = v]

\* an exception leaves the running method: out of __init__ the object is never
\* returned (and __del__ closes the port), otherwise it reaches the caller
Raise ==
  /\ caller' =
       [Finish(caller) EXCEPT
          !.pc = IF caller.op = "init" THEN "failed" ELSE "idle",
          !.raised = TRUE]
  /\ port' = IF caller.op = "init" THEN "closed" ELSE port

CommandGuard ==
  /\ caller.pc = "cmd_guard"
  /\ caller' = IF CommandBlocked
               THEN Return(None)
               ELSE [caller EXCEPT !.pc = "cmd_write"]
  /\ UNCHANGED <<std, measurement_running, port, written, callback, auto,
                 device_info, probe_info, loops, readlog, delivered>>

\* self.s.write(_command): PortNotOpenError on a closed port
CommandWrite ==
  /\ caller.pc = "cmd_write"
  /\ IF port # "open"
     THEN Raise /\ UNCHANGED written
     ELSE /\ written' = Append(written, Frame(caller.cmd))
          /\ caller' = IF caller.noreply
                       THEN Return(None)
                       ELSE [caller EXCEPT !.pc = "cmd_read"]
          /\ UNCHANGED port
  /\ UNCHANGED <<std, measurement_running, callback, auto, device_info,
                 probe_info, loops, readlog, delivered>>

\* _response = self.s.readline(); return _response.decode().strip()
CommandRead ==
  /\ caller.pc = "cmd_read"
  /\ \E b \in Replies(caller.cmd) :
       IF CanDecode(b)
       THEN caller' = Return(strip(b)) /\ UNCHANGED port
       ELSE Raise
  /\ UNCHANGED <<std, measurement_running, written, callback, auto, device_info,
                 probe_info, loops, readlog, delivered>>

\* ------------------------------------------------------ RadMan2.__init__()
\* serial.Serial(port, baud_rate, timeout=timeout); sys.exit(1) on failure,
\* then self.get_device_info() sends DEVICE_INFO?
Connect ==
  /\ caller.pc = "connect"
  /\ \/ port' = "open" /\ caller' = Call("DEVICE_INFO?", FALSE, "dev_parse")
     \/ port' = "none" /\ caller' = [caller EXCEPT !.pc = "exited"]
  /\ UNCHANGED <<std, measurement_running, written, callback, auto, device_info,
                 probe_info, loops, readlog, delivered>>

DeviceInfoFields == 10

\* a count check that lets longer replies through
DeviceInfoFieldsAtLeast(fields) == Len(fields) >= DeviceInfoFields

\* len(_fields) != 10 raises ValueError
DeviceInfoFieldsOk(fields) == Len(fields) = DeviceInfoFields

\* the dict get_device_info() builds from _fields
DeviceInfoDict(fields) ==
  {<<DeviceInfoKeys[i], fields[i]>> : i \in 1..DeviceInfoFields}

\* get_device_info() after its command() returned, then __init__ asks for the
\* probe information
GetDeviceInfo ==
  /\ caller.pc = "dev_parse"
  /\ LET _fields == split(DropLast(caller.ret)) IN
       IF DeviceInfoFieldsOk(_fields)
       THEN /\ device_info' = DeviceInfoDict(_fields)
            /\ caller' = Call("Probe_INFO?", FALSE, "probe_parse")
            /\ UNCHANGED port
       ELSE Raise /\ UNCHANGED device_info
  /\ UNCHANGED <<std, measurement_running, written, callback, auto, probe_info,
                 loops, readlog, delivered>>

ProbeInfoFields == 12

\* the try block of get_probe_info(): the first float() that fails ends it,
\* the keys set before it stay in the dict
ProbeInfoOptional(fields) ==
  LET firstBad ==
        IF \E i \in 7..10 : ~IsFloat(fields[i])
        THEN CHOOSE i \in 7..10 :
               /\ ~IsFloat(fields[i])
               /\ \A j \in 7..(i - 1) : IsFloat(fields[j])
        ELSE ProbeInfoFields + 1
  IN {<<ProbeInfoOptionalKeys[i - 6], fields[i]>> :
        i \in {j \in 7..ProbeInfoFields : j < firstBad}}

\* the dict get_probe_info() returns
ProbeInfoDict(fields) ==
  {<<ProbeInfoKeys[i], fields[i]>> : i \in 1..6} \cup ProbeInfoOptional(fields)

\* get_probe_info() after its command() returned, then the end of __init__
GetProbeInfo ==
  /\ caller.pc = "probe_parse"
  /\ LET _fields == split(DropLast(caller.ret)) IN
       IF Len(_fields) = ProbeInfoFields
       THEN /\ probe_info' = ProbeInfoDict(_fields)
            /\ caller' = IF auto
                         THEN [caller EXCEPT !.pc = "start_guard"]
                         ELSE Finish(caller)
            /\ UNCHANGED port
       ELSE Raise /\ UNCHANGED probe_info
  /\ UNCHANGED <<std, measurement_running, written, callback, auto, device_info,
                 loops, readlog, delivered>>

\* --------------------------------------------- RadMan2.set_remote_mode()
\* _status == '0;'
RemoteStatus(reply) == reply = <<"0", ";">>

\* --------------------------------------------- RadMan2.start_measurement()
\* the guard of start_measurement() left out
StartNeverBlocked == FALSE

\* line 176: an already running measurement is left alone
StartBlocked == measurement_running

\* the guard, then set_remote_mode(True) sends REMOTE ON
StartGuard ==
  /\ caller.pc = "start_guard"
  /\ caller' = IF StartBlocked
               THEN Finish(caller)
               ELSE Call("REMOTE ON", FALSE, "remote_ret")
  /\ UNCHANGED <<std, measurement_running, port, written, callback, auto,
                 device_info, probe_info, loops, readlog, delivered>>

\* what start_measurement() does with set_remote_mode()'s result: line 179
\* drops it, MEAS_START_CIB is sent whatever it is
StartAfterRemote(c) ==
  [c EXCEPT !.pc = "cmd_guard", !.cmd = "MEAS_START_CIB", !.noreply = TRUE,
            !.cont = "start_flag"]

\* set_remote_mode() after its command() returned
SetRemoteMode ==
  /\ caller.pc = "remote_ret"
  /\ LET c == [caller EXCEPT !.status = RemoteStatus(caller.ret)] IN
       caller' = IF caller.op \in {"init", "start"}
                 THEN StartAfterRemote(c)
                 ELSE Finish(c)
  /\ UNCHANGED <<std, measurement_running, port, written, callback, auto,
                 device_info, probe_info, loops, readlog, delivered>>

\* self.measurement_running = True
StartSetRunning ==
  /\ caller.pc = "start_flag"
  /\ measurement_running' = TRUE
  /\ caller' = [caller EXCEPT !.pc = "start_thread"]
  /\ UNCHANGED <<std, port, written, callback, auto, device_info, probe_info,
                 loops, readlog, delivered>>

\* Thread(target=self.measurement_loop).start()
StartThread ==
  /\ caller.pc = "start_thread"
  /\ \E t \in 1..MaxLoops :
       /\ loops[t].pc = "unborn"
       /\ \A u \in 1..(t - 1) : loops[u].pc # "unborn"
       /\ loops' = [loops EXCEPT ![t].pc = "while"]
  /\ caller' = Finish(caller)
  /\ UNCHANGED <<std, measurement_running, port, written, callback, auto,
                 device_info, probe_info, readlog, delivered>>

\* ------------------------------------------------------- RadMan2.close()
\* time.sleep(5)
CloseSleep ==
  /\ caller.pc = "close_sleep"
  /\ caller' = [caller EXCEPT !.pc = "close_port"]
  /\ UNCHANGED <<std, measurement_running, port, written, callback, auto,
                 device_info, probe_info, loops, readlog, delivered>>

\* self.s.close(); d0 notes how many samples were delivered by then
ClosePort ==
  /\ caller.pc = "close_port"
  /\ port' = "closed"
  /\ caller' = Finish([caller EXCEPT !.d0 = Len(delivered)])
  /\ UNCHANGED <<std, measurement_running, written, callback, auto, device_info,
                 probe_info, loops, readlog, delivered>>

\* ------------------------------------------- the caller's method calls
\* the caller enters method o of the constructed session
Enter(o) ==
  [caller EXCEPT !.op = o, !.raised = FALSE, !.ret = None, !.status = FALSE,
                 !.noreply = FALSE,
                 !.run0 = measurement_running, !.w0 = Len(written),
                 !.t0 = Cardinality(Started),
                 !.calls = caller.calls + 1]

CanCall == caller.pc = "idle" /\ caller.calls < MaxCalls

UserCommands == {"DEVICE_INFO?"}

\* radman.start_measurement()
CallStart ==
  /\ CanCall
  /\ caller' = [Enter("start") EXCEPT !.pc = "start_guard"]
  /\ UNCHANGED <<std, measurement_running, port, written, callback, auto,
                 device_info, probe_info, loops, readlog, delivered>>

\* what stop_measurement() does: line 192, the command goes through command()
StopMeasurement(c) ==
  [c EXCEPT !.pc = "cmd_guard", !.cmd = "MEAS_STOP_CIB", !.noreply = TRUE,
            !.cont = "idle"]

\* radman.stop_measurement()
CallStop ==
  /\ CanCall
  /\ caller' = StopMeasurement(Enter("stop"))
  /\ UNCHANGED <<std, measurement_running, port, written, callback, auto,
                 device_info, probe_info, loops, readlog, delivered>>

\* radman.command(c, noreply=n)
CallCommand ==
  /\ CanCall
  /\ \E c \in UserCommands, n \in BOOLEAN :
       caller' = [Enter("command") EXCEPT !.pc = "cmd_guard", !.cmd = c,
                                          !.noreply = n, !.cont = "idle"]
  /\ UNCHANGED <<std, measurement_running, port, written, callback, auto,
                 device_info, probe_info, loops, readlog, delivered>>

\* radman.set_remote_mode(b)
CallSetRemote ==
  /\ CanCall
  /\ \E b \in BOOLEAN :
       caller' = [Enter("remote") EXCEPT
                    !.pc = "cmd_guard",
                    !.cmd = IF b THEN "REMOTE ON" ELSE "REMOTE OFF",
                    !.noreply = FALSE, !.cont = "remote_ret"]
  /\ UNCHANGED <<std, measurement_running, port, written, callback, auto,
                 device_info, probe_info, loops, readlog, delivered>>

\* what close() does before it sleeps: line 216 clears the flag, nothing is
\* written
CloseBegin(c) == [c EXCEPT !.pc = "close_sleep"]

\* radman.close()
CallClose ==
  /\ CanCall
  /\ measurement_running' = FALSE
  /\ caller' = CloseBegin(Enter("close"))
  /\ UNCHANGED <<std, port, written, callback, auto, device_info, probe_info,
                 loops, readlog, delivered>>

\* --------------------------------------------- RadMan2.measurement_loop()
MeasurementFields == 6

\* _line[:-1].split(',')
LineFields(line) == split(DropLast(line))

\* _fields for each line readline() can return; bytes that do not decode
\* never get there
FieldsOf ==
  [b \in MeasLines |-> IF CanDecode(b) THEN LineFields(strip(b)) ELSE <<>>]

\* a count check that lets longer lines through
LineFieldsAtLeast(fields) == Len(fields) >= MeasurementFields

\* len(_fields) != 6 discards the line
LineFieldsOk(fields) == Len(fields) = MeasurementFields

\* the three float() calls succeed
LineFloatsOk(fields) ==
  IsFloat(fields[1]) /\ IsFloat(fields[2]) /\ IsFloat(fields[6])

\* a number as numerator over denominator
Num(n, d) == [num |-> n, den |-> d]

\* a sample whose battery reading is divided by 100 like the two percentages
SampleAllScaled(fields) ==
  [e_field_percentage |-> Num(floatValue(fields[1]), 100),
   h_field_percentage |-> Num(floatValue(fields[2]), 100),
   unknown |-> fields[3],
   e_field_ok |-> fields[4],
   h_fields_ok |-> fields[5],
   battery_percentage |-> Num(floatValue(fields[6]), 100)]

\* the dict _output built from _fields
Sample(fields) ==
  [e_field_percentage |-> Num(floatValue(fields[1]), 100),
   h_field_percentage |-> Num(floatValue(fields[2]), 100),
   unknown |-> fields[3],
   e_field_ok |-> fields[4],
   h_fields_ok |-> fields[5],
   battery_percentage |-> Num(floatValue(fields[6]), 1)]

\* the fields yield a sample
LineAccepted(fields) == LineFieldsOk(fields) /\ LineFloatsOk(fields)

\* a loop that never looks at the flag
LoopAlwaysContinues == TRUE

\* line 141: while self.measurement_running
LoopContinues == measurement_running

ReadsStarted ==
  Len(readlog) + Cardinality({t \in 1..MaxLoops : loops[t].pc \in {"read", "reading"}})

\* the while test of one iteration
LoopCheck(t) ==
  /\ loops[t].pc = "while"
  /\ IF LoopContinues
     THEN /\ ReadsStarted < MaxReads
          /\ loops' = [loops EXCEPT ![t].pc = "read", ![t].cb = "none"]
     ELSE loops' = [loops EXCEPT ![t].pc = "exited", ![t].cb = "none"]
  /\ UNCHANGED <<std, measurement_running, port, written, callback, auto,
                 device_info, probe_info, caller, readlog, delivered>>

\* self.s.readline() is entered: PortNotOpenError on a closed port, raised
\* outside the try block, ends the thread
LoopReadBegin(t) ==
  /\ loops[t].pc = "read"
  /\ loops' = [loops EXCEPT ![t].pc = IF port = "open" THEN "reading" ELSE "crashed"]
  /\ UNCHANGED <<std, measurement_running, port, written, callback, auto,
                 device_info, probe_info, caller, readlog, delivered>>

\* where line 143 leaves the loop for the bytes b that readline() returned:
\* .decode() is outside the try block, so bytes it rejects end the thread
AfterReadline(b) == IF CanDecode(b) THEN "parse" ELSE "crashed"

\* self.s.readline() returns, then .decode().strip() and the split into
\* _fields; a port closed under the read makes readline() raise or return
\* what it has (nothing)
LoopReadEnd(t) ==
  /\ loops[t].pc = "reading"
  /\ \/ /\ port = "open"
        /\ \E b \in MeasLines :
             /\ readlog' = Append(readlog, b)
             /\ loops' = [loops EXCEPT
                            ![t].pc = AfterReadline(b),
                            ![t].fields = FieldsOf[b]]
     \/ /\ port # "open"
        /\ readlog' = Append(readlog, EmptyLine)
        /\ loops' = [loops EXCEPT ![t].pc = "parse",
                                  ![t].fields = FieldsOf[EmptyLine]]
     \/ /\ port # "open"
        /\ readlog' = readlog
        /\ loops' = [loops EXCEPT ![t].pc = "crashed"]
  /\ UNCHANGED <<std, measurement_running, port, written, callback, auto,
                 device_info, probe_info, caller, delivered>>

\* the rest of the try block: a line with another field count or a field
\* float() rejects is logged and dropped, a sample goes to the callback when
\* there is one
LoopParse(t) ==
  /\ loops[t].pc = "parse"
  /\ IF LineAccepted(loops[t].fields) /\ callback
     THEN /\ delivered' = Append(delivered, Sample(loops[t].fields))
          /\ loops' = [loops EXCEPT ![t].pc = "callback"]
     ELSE /\ delivered' = delivered
          /\ loops' = [loops EXCEPT ![t].pc = "while"]
  /\ UNCHANGED <<std, measurement_running, port, written, callback, auto,
                 device_info, probe_info, caller, readlog>>

\* a loop that an exception out of the callback ends
CallbackRaiseEnds(outcome) == IF outcome = "raised" THEN "crashed" ELSE "while"

\* where the callback leaves the loop: it returns to the end of the try
\* block, or raises inside it and line 164 catches the exception; both go on
\* to the while test
AfterCallback(outcome) == "while"

\* self.callback(_output) returns or raises; cb keeps how it ended until the
\* next while test
LoopCallback(t) ==
  /\ loops[t].pc = "callback"
  /\ \E outcome \in {"returned", "raised"} :
       loops' = [loops EXCEPT ![t].pc = AfterCallback(outcome),
                              ![t].cb = outcome]
  /\ UNCHANGED <<std, measurement_running, port, written, callback, auto,
                 device_info, probe_info, caller, readlog, delivered>>

LoopStep(t) ==
  \/ LoopCheck(t)
  \/ LoopReadBegin(t)
  \/ LoopReadEnd(t)
  \/ LoopParse(t)
  \/ LoopCallback(t)

\* --------------------------------------- the limit standard and its users
session ==
  <<measurement_running, port, written, callback, auto, device_info,
    probe_info, caller, loops, readlog, delivered>>

\* the frequencies asked for, in kHz: 0, 3.0, 50.008, 100.0, 300.0 MHz, and
\* 0.5 and 1.01 MHz above the last table entry
Frequencies == {0, 3000, 50008, 100000, 300000, 3000490, 3001000}

\* the percentages asked for: 0, 0.25 (a sample reading of 25), 50 and 100
Percentages ==
  {[num |-> 0, den |-> 1], [num |-> 25, den |-> 100], [num |-> 50, den |-> 1],
   [num |-> 100, den |-> 1]}

\* args.frequency: None without --frequency
NoFrequency == -1

\* the table the standard object holds
Occupational(standard) == standard = "occupational"

\* standard = choose_standard(_radman.probe_info['standard_name'])
ChooseStandard ==
  /\ std.pc = "choose"
  /\ \E name \in StandardNames :
       std' = [std EXCEPT !.pc = "resolved", !.name = name,
                          !.standard = choose_standard(name)]
  /\ UNCHANGED session

\* FCC96326(occupational=b) built directly
NewStandard ==
  /\ std.pc = "choose"
  /\ \E b \in BOOLEAN :
       std' = [std EXCEPT
                 !.pc = "built",
                 !.standard = IF b THEN "occupational" ELSE "general_public"]
  /\ UNCHANGED session

\* standard.efield_limit(f)
EfieldLimit ==
  /\ std.pc # "choose" /\ std.standard # "None"
  /\ \E f \in Frequencies :
       std' = [std EXCEPT
                 !.last = [fn |-> "efield_limit", frequency |-> f,
                           percentage |-> NoCall.percentage,
                           result |-> field_limit("e", Occupational(std.standard), f),
                           report |-> <<>>]]
  /\ UNCHANGED session

\* standard.hfield_limit(f)
HfieldLimit ==
  /\ std.pc # "choose" /\ std.standard # "None"
  /\ \E f \in Frequencies :
       std' = [std EXCEPT
                 !.last = [fn |-> "hfield_limit", frequency |-> f,
                           percentage |-> NoCall.percentage,
                           result |-> field_limit("h", Occupational(std.standard), f),
                           report |-> <<>>]]
  /\ UNCHANGED session

\* standard.percentage_to_efield(p, f)
PercentageToEfield ==
  /\ std.pc # "choose" /\ std.standard # "None"
  /\ \E p \in Percentages, f \in Frequencies :
       std' = [std EXCEPT
                 !.last = [fn |-> "percentage_to_efield", frequency |-> f,
                           percentage |-> p,
                           result |-> percentage_to_field(
                                        "e", Occupational(std.standard), p, f),
                           report |-> <<>>]]
  /\ UNCHANGED session

\* standard.percentage_to_hfield(p, f)
PercentageToHfield ==
  /\ std.pc # "choose" /\ std.standard # "None"
  /\ \E p \in Percentages, f \in Frequencies :
       std' = [std EXCEPT
                 !.last = [fn |-> "percentage_to_hfield", frequency |-> f,
                           percentage |-> p,
                           result |-> percentage_to_field(
                                        "h", Occupational(std.standard), p, f),
                           report |-> <<>>]]
  /\ UNCHANGED session

\* the samples handle_data() is called with
Samples == {Sample(LineFields(strip(Meas1))), Sample(LineFields(strip(Meas2)))}

\* a handle_data() that converts whatever the standard is
AlwaysConverts(standard, frequency) == TRUE

\* lines 83 and 94: if standard and args.frequency
Converts(standard, frequency) ==
  standard # "None" /\ frequency # NoFrequency /\ frequency # 0

\* what handle_data() logs for data, and the line it writes to the log file
\* when there is one; conversions counts the percentage_to_ calls made. With
\* no standard object a conversion is an AttributeError
Report(standard, frequency, data, log) ==
  IF Converts(standard, frequency)
  THEN LET e == IF standard = "None"
                THEN Outcome(NoValue, "AttributeError", NoMatch, FALSE, 0, 0)
                ELSE percentage_to_field("e", Occupational(standard),
                                         data.e_field_percentage, frequency)
           h == IF standard = "None"
                THEN Outcome(NoValue, "AttributeError", NoMatch, FALSE, 0, 0)
                ELSE percentage_to_field("h", Occupational(standard),
                                         data.h_field_percentage, frequency)
       IN IF e.error # ""
          THEN [error |-> e.error, conversions |-> 1, logged |-> <<>>,
                line |-> <<>>]
          ELSE IF h.error # ""
          THEN [error |-> h.error, conversions |-> 2, logged |-> <<>>,
                line |-> <<>>]
          ELSE [error |-> "", conversions |-> 2,
                logged |-> <<e.value, data.e_field_percentage, h.value,
                             data.h_field_percentage>>,
                line |-> IF log
                         THEN <<data.e_field_percentage, data.h_field_percentage,
                                data.battery_percentage, e.value, h.value>>
                         ELSE <<>>]
  ELSE [error |-> "", conversions |-> 0,
        logged |-> <<data.e_field_percentage, data.h_field_percentage>>,
        line |-> IF log
                 THEN <<data.e_field_percentage, data.h_field_percentage,
                        data.battery_percentage>>
                 ELSE <<>>]

\* handle_data(data), the callback of __main__.py
HandleData ==
  /\ std.pc # "choose" /\ std.standard # "general_public"
  /\ \E data \in Samples, f \in Frequencies \cup {NoFrequency}, log \in BOOLEAN :
       std' = [std EXCEPT
                 !.last = [fn |-> "handle_data", frequency |-> f,
                           percentage |-> data.e_field_percentage,
                           result |-> NoCall.result,
                           report |-> Report(std.standard, f, data, log)]]
  /\ UNCHANGED session

\* ------------------------------------------------------- specification
CallerStep ==
  \/ Connect
  \/ CommandGuard
  \/ CommandWrite
  \/ CommandRead
  \/ GetDeviceInfo
  \/ GetProbeInfo
  \/ StartGuard
  \/ SetRemoteMode
  \/ StartSetRunning
  \/ StartThread
  \/ CloseSleep
  \/ ClosePort
  \/ CallStart
  \/ CallStop
  \/ CallCommand
  \/ CallSetRemote
  \/ CallClose

Next == CallerStep \/ \E t \in 1..MaxLoops : LoopStep(t)

Spec == Init /\ [][Next]_vars

\* every started thread is scheduled, readline() returns within its timeout
\* and the callback returns
FairSpec == Spec /\ WF_vars(\E t \in 1..MaxLoops : LoopStep(t))

\* a program that resolves a standard once and then uses it, the session
\* constructed with handle_data as its callback (__main__.py line 105)
StdInit == Init /\ callback /\ ~auto

StdNext ==
  \/ ChooseStandard
  \/ NewStandard
  \/ EfieldLimit
  \/ HfieldLimit
  \/ PercentageToEfield
  \/ PercentageToHfield
  \/ HandleData

StdSpec == StdInit /\ [][StdNext]_vars

\* ------------------------------------------------------------ properties
StopFrame == Frame("MEAS_STOP_CIB")
LoopReading == \E t \in 1..MaxLoops : loops[t].pc = "reading"
AliveLoops == {t \in 1..MaxLoops : Alive(t)}

\* C1: a command() call made while measurement_running is set (directly, or
\* through stop_measurement() and set_remote_mode()) never reaches the write
\* or the reply read, leaves the written bytes as they were and returns None
\* without raising.
C1_ModeGuard ==
  (caller.op \in {"command", "stop", "remote"} /\ caller.run0) =>
    /\ caller.pc \notin {"cmd_write", "cmd_read"}
    /\ Len(written) = caller.w0
    /\ caller.ret = None
    /\ ~caller.raised

\* a command() call expecting a reply has come back while a loop is alive
C1_Witness ==
  /\ caller.op = "command" /\ caller.run0 /\ caller.pc = "idle"
  /\ ~caller.noreply
  /\ measurement_running /\ AliveLoops # {}

\* C2: when stop_measurement() called in MEASURING has returned, MEAS_STOP_CIB;
\* is the one thing it wrote and the session has left MEASURING.
C2_StopLeavesMeasuring ==
  (caller.op = "stop" /\ caller.run0 /\ caller.pc = "idle") =>
    /\ Len(written) = caller.w0 + 1
    /\ written[Len(written)] = StopFrame
    /\ ~measurement_running

\* C3: close() has cleared the flag and written MEAS_STOP_CIB; by the time it
\* sleeps, and the transport it closes has had the stop command written.
C3_CloseStopsBeforeClosing ==
  (caller.op = "close" /\ (caller.pc \in {"close_sleep", "close_port"} \/ port = "closed")) =>
    /\ ~measurement_running
    /\ \E i \in (caller.w0 + 1)..Len(written) : written[i] = StopFrame

\* C4: start_measurement() sends MEAS_START_CIB, sets the flag and starts the
\* loop only after the device answered REMOTE ON with exactly 0;.
C4_StartOnlyInRemote ==
  (/\ caller.op \in {"init", "start"}
   /\ \/ caller.cmd = "MEAS_START_CIB"
      \/ caller.pc = "idle" /\ measurement_running /\ ~caller.run0) =>
    caller.status

\* C5: at most one measurement loop is alive.
C5_SingleReader == Cardinality(AliveLoops) <= 1

\* a second start_measurement() has returned while the first loop is alive
C5_Witness ==
  /\ caller.op = "start" /\ caller.run0 /\ caller.pc = "idle"
  /\ AliveLoops # {}

\* C6: command() is never past its guard, about to write or reading its reply
\* on the open transport, while a measurement loop is inside readline().
C6_TransportExclusive ==
  ~(caller.pc \in {"cmd_write", "cmd_read"} /\ port = "open" /\ LoopReading)

\* the guard has turned a command() call away while a loop was inside readline()
C6_Witness ==
  /\ caller.op \in {"command", "stop"} /\ caller.run0 /\ caller.pc = "idle"
  /\ port = "open" /\ LoopReading

\* C7: with the flag set and the transport open, no line that was read has
\* ended a measurement loop.
C7_NoLineEndsLoop ==
  (measurement_running /\ port = "open") =>
    \A t \in 1..MaxLoops : loops[t].pc # "crashed"

\* the number of comma-separated fields of text s once its last character,
\* the terminator, is dropped
FieldCount(s) == Cardinality({i \in 1..(Len(s) - 1) : s[i] = ","}) + 1

\* field k of text s, counted from 1, its last character dropped
FieldAt(s, k) ==
  LET body == DropLast(s)
      commas == {i \in 1..Len(body) : body[i] = ","}
      nth(n) == CHOOSE i \in commas : Cardinality({j \in commas : j < i}) = n - 1
      lo == IF k = 1 THEN 0 ELSE nth(k - 1)
      hi == IF k = Cardinality(commas) + 1 THEN Len(body) + 1 ELSE nth(k)
  IN SubSeq(body, lo + 1, hi - 1)

AllDigits(f) == Len(f) >= 1 /\ \A i \in 1..Len(f) : f[i] \in Digits

\* the bytes b are a well-formed measurement line: text of exactly 6 fields
\* whose fields 1, 2 and 6 are numbers
WellFormedLine(b) ==
  /\ CanDecode(b)
  /\ FieldCount(strip(b)) = 6
  /\ \A k \in {1, 2, 6} : AllDigits(FieldAt(strip(b), k))

\* the well-formed lines of a log of lines read, in order
RECURSIVE WellFormedOf(_)
WellFormedOf(log) ==
  IF log = <<>> THEN <<>>
  ELSE IF WellFormedLine(Head(log))
       THEN <<Head(log)>> \o WellFormedOf(Tail(log))
       ELSE WellFormedOf(Tail(log))

\* the lines read whose try block has run: all but one still waiting for it
ParsedLines ==
  IF \E t \in 1..MaxLoops : loops[t].pc = "parse"
  THEN DropLast(readlog)
  ELSE readlog

\* C8: with a callback registered, the samples passed to it are, one for one
\* and in order, the well-formed lines the loop has read and parsed (text
\* fields as read), and no line is being read while a callback is running.
C8_OrderedSynchronousDelivery ==
  callback =>
    LET good == WellFormedOf(ParsedLines) IN
      /\ Len(delivered) = Len(good)
      /\ \A i \in 1..Len(good) :
           /\ delivered[i].unknown = FieldAt(strip(good[i]), 3)
           /\ delivered[i].e_field_ok = FieldAt(strip(good[i]), 4)
           /\ delivered[i].h_fields_ok = FieldAt(strip(good[i]), 5)
           /\ delivered[i].e_field_percentage.num = floatValue(FieldAt(strip(good[i]), 1))
           /\ delivered[i].h_field_percentage.num = floatValue(FieldAt(strip(good[i]), 2))
           /\ delivered[i].battery_percentage.num = floatValue(FieldAt(strip(good[i]), 6))
      /\ (\E t \in 1..MaxLoops : loops[t].pc = "callback") =>
           \A u \in 1..MaxLoops : loops[u].pc \notin {"read", "reading", "parse"}

\* two different samples were delivered, in the order their lines were read,
\* and the second callback is running
C8_Witness ==
  /\ callback
  /\ Len(delivered) = 2 /\ delivered[1] # delivered[2]
  /\ \E t \in 1..MaxLoops : loops[t].pc = "callback"

\* C9: once the flag is cleared, no loop passes its while test again as long
\* as the flag stays cleared, and every loop alive then ends, unless the flag
\* is set again.
C9_CooperativeCancellation ==
  /\ [][(~measurement_running /\ ~measurement_running') =>
          \A t \in 1..MaxLoops :
            loops[t].pc = "while" => loops'[t].pc \in {"while", "exited"}]_vars
  /\ (~measurement_running /\ AliveLoops # {}) ~>
       (AliveLoops = {} \/ measurement_running)

\* close() cleared the flag and a loop that was running has left its while
C9_Witness ==
  /\ caller.op = "close" /\ caller.run0 /\ ~measurement_running
  /\ \E t \in 1..MaxLoops : loops[t].pc = "exited"

DeviceInfoFrame == Frame("DEVICE_INFO?")
ProbeInfoFrame == Frame("Probe_INFO?")

\* __init__ is past get_device_info() with the reply still in hand
AfterDeviceInfo ==
  /\ caller.op = "init"
  /\ written = <<DeviceInfoFrame>>
  /\ caller.ret # None
  /\ caller.pc \in {"failed", "cmd_guard", "cmd_write"}

\* C10: once get_device_info() has dealt with a reply, a reply of 10 fields
\* has given the 10 keys its fields in order and the constructor goes on to
\* Probe_INFO?; any other reply has raised and ended the constructor. Nothing
\* later (Probe_INFO?, a measurement, a constructed session) comes about
\* without the device information.
C10_DeviceInfoQuery ==
  /\ AfterDeviceInfo =>
       IF FieldCount(caller.ret) = 10
       THEN /\ caller.pc # "failed" /\ caller.cmd = "Probe_INFO?"
            /\ Cardinality(device_info) = 10
            /\ \A k \in 1..10 :
                 <<DeviceInfoKeys[k], FieldAt(caller.ret, k)>> \in device_info
       ELSE /\ caller.pc = "failed" /\ caller.raised
            /\ device_info = NoDict
  /\ device_info = NoDict =>
       /\ ProbeInfoFrame \notin Range(written)
       /\ ~measurement_running
       /\ AliveLoops = {}
       /\ caller.pc # "idle"

\* a reply of 9 fields has ended the constructor
C10_Witness ==
  /\ AfterDeviceInfo
  /\ caller.ret = strip(Dev9)
  /\ caller.pc = "failed"

\* the constructor is past get_probe_info(), the reply still in hand
AfterProbeInfo ==
  /\ caller.op = "init"
  /\ written = <<DeviceInfoFrame, ProbeInfoFrame>>
  /\ caller.pc \in {"idle", "start_guard"}

\* a reply of 12 fields, one of the four numeric optional fields not a number
MalformedOptional(reply) ==
  /\ FieldCount(reply) = 12
  /\ \E k \in 7..10 : ~AllDigits(FieldAt(reply, k))

\* C11: get_probe_info() given a 12-field reply with a malformed optional
\* numeric field has not raised and has returned a record of the 6 mandatory
\* keys, each with its field, and none of the 6 optional keys.
C11_PartialProbeInfo ==
  (AfterProbeInfo /\ MalformedOptional(caller.ret)) =>
    /\ ~caller.raised
    /\ {item[1] : item \in probe_info} = Range(ProbeInfoKeys)
    /\ \A k \in 1..6 : <<ProbeInfoKeys[k], FieldAt(caller.ret, k)>> \in probe_info


\* the lines read and parsed that are text of exactly 6 fields
SixFieldLines ==
  {i \in 1..Len(ParsedLines) :
     CanDecode(ParsedLines[i]) /\ FieldCount(strip(ParsedLines[i])) = 6}

\* C12: the sample a loop is handing to the callback comes from the line just
\* read, a line of exactly 6 fields once its terminator is dropped; it holds
\* field 0 over 100, field 1 over 100, field 5 unscaled and fields 2, 3, 4 as
\* text; no more samples were ever produced than 6-field lines were read.
C12_LineParsing ==
  callback =>
    /\ \A t \in 1..MaxLoops :
         loops[t].pc = "callback" =>
           LET line == strip(readlog[Len(readlog)])
               sample == delivered[Len(delivered)]
           IN /\ FieldCount(line) = 6
              /\ sample.e_field_percentage =
                   [num |-> floatValue(FieldAt(line, 1)), den |-> 100]
              /\ sample.h_field_percentage =
                   [num |-> floatValue(FieldAt(line, 2)), den |-> 100]
              /\ sample.battery_percentage =
                   [num |-> floatValue(FieldAt(line, 6)), den |-> 1]
              /\ sample.unknown = FieldAt(line, 3)
              /\ sample.e_field_ok = FieldAt(line, 4)
              /\ sample.h_fields_ok = FieldAt(line, 5)
    /\ Len(delivered) <= Cardinality(SixFieldLines)

\* a 7-field line was read and gave no sample, the 6-field line after it is
\* with the callback as 25/100, 12/100 and battery 99
C12_Witness ==
  /\ callback
  /\ readlog = <<Meas7Fields, Meas2>>
  /\ Len(delivered) = 1
  /\ delivered[1].e_field_percentage = [num |-> 25, den |-> 100]
  /\ delivered[1].battery_percentage = [num |-> 99, den |-> 1]
  /\ \E t \in 1..MaxLoops : loops[t].pc = "callback"


LastLookup == std.last.fn \in {"efield_limit", "hfield_limit"}
LastConversion ==
  std.last.fn \in {"percentage_to_efield", "percentage_to_hfield"}

\* the value 61.4, 0.163 and 614
Limit61_4 == [root |-> 1, q |-> [num |-> 307, den |-> 5]]
Limit0_163 == [root |-> 1, q |-> [num |-> 163, den |-> 1000]]
Limit614 == [root |-> 1, q |-> [num |-> 614, den |-> 1]]

\* C13: on the occupational table efield_limit(100.0) has returned 61.4,
\* hfield_limit(300.0) has returned 0.163 and efield_limit(3.0) has returned
\* 614.
C13_BandBoundaries ==
  (std.standard = "occupational" /\ LastLookup) =>
    /\ (std.last.fn = "efield_limit" /\ std.last.frequency = 100000) =>
         std.last.result.value = Limit61_4
    /\ (std.last.fn = "hfield_limit" /\ std.last.frequency = 300000) =>
         std.last.result.value = Limit0_163
    /\ (std.last.fn = "efield_limit" /\ std.last.frequency = 3000) =>
         std.last.result.value = Limit614

\* C14: a lookup on the occupational table has raised nothing and has
\* returned the limit of a table entry than which no entry is nearer to the
\* frequency asked for; it has warned exactly when that entry is more than
\* 1.0 MHz (1000 kHz) away.
C14_NearestMatch ==
  (std.standard = "occupational" /\ LastLookup) =>
    LET f == std.last.frequency
        r == std.last.result
        distance == Abs(r.match - f)
    IN /\ r.error = ""
       /\ \A k \in 1..Len(OccupationalTable) :
            distance <= Abs(OccupationalTable[k] - f)
       /\ \E j \in 1..Len(OccupationalTable) :
            /\ OccupationalTable[j] = r.match
            /\ r.value = IF std.last.fn = "efield_limit"
                         THEN efield(j, OccupationalTable[j])
                         ELSE hfield(j, OccupationalTable[j])
       /\ r.warned <=> (distance > 1000)

\* hfield_limit(3001.0) has matched the last entry, 2999.99 MHz, with a
\* warning
C14_Witness ==
  /\ std.standard = "occupational"
  /\ std.last.fn = "hfield_limit" /\ std.last.frequency = 3001000
  /\ std.last.result.match = 2999990
  /\ std.last.result.warned /\ std.last.result.error = ""

\* C15: on the occupational table a conversion of percentage 0 has returned
\* 0.0 without a table lookup or a logarithm, and a conversion of percentage
\* 100 has returned what efield_limit (hfield_limit for the H field) returns
\* for the same frequency.
C15_ConversionIdentity ==
  (std.standard = "occupational" /\ LastConversion) =>
    LET r == std.last.result
        which == IF std.last.fn = "percentage_to_efield" THEN "e" ELSE "h"
    IN /\ std.last.percentage.num = 0 =>
            /\ r.value = [root |-> 1, q |-> [num |-> 0, den |-> 1]]
            /\ r.error = ""
            /\ r.lookups = 0 /\ r.logs = 0
       /\ std.last.percentage = [num |-> 100, den |-> 1] =>
            /\ r.error = ""
            /\ r.value = field_limit(which, TRUE, std.last.frequency).value

\* percentage_to_hfield(100, 3.0) has returned the limit of 3.0 MHz
C15_Witness ==
  /\ std.standard = "occupational"
  /\ std.last.fn = "percentage_to_hfield"
  /\ std.last.percentage = [num |-> 100, den |-> 1]
  /\ std.last.frequency = 3000
  /\ std.last.result.value = [root |-> 1, q |-> [num |-> 163, den |-> 30]]

\* C16: every efield_limit or hfield_limit call on the general-public
\* standard, whose table is empty, has failed with UnimplementedError.
C16_EmptyTableLookup ==
  (std.standard = "general_public" /\ LastLookup) =>
    std.last.result.error = "UnimplementedError"

\* text name holds the 25 characters FCC 96-326 / Occupational in a row
HasOccupational(name) ==
  \E i \in 0..Len(name) :
    /\ i + 25 <= Len(name)
    /\ \A k \in 1..25 : name[i + k] = NameOccupational[k]

\* C17: choose_standard has resolved the occupational standard exactly for
\* the names that hold FCC 96-326 / Occupational and no standard for every
\* other name; with no standard resolved handle_data has made no conversion
\* and has reported the two raw percentages, on the log file line with the
\* battery reading and nothing more.
C17_StandardResolution ==
  std.pc = "resolved" =>
    /\ std.standard = IF HasOccupational(std.name) THEN "occupational" ELSE "None"
    /\ (std.standard = "None" /\ std.last.fn = "handle_data") =>
         /\ std.last.report.error = ""
         /\ std.last.report.conversions = 0
         /\ Len(std.last.report.logged) = 2
         /\ std.last.report.logged[1] = std.last.percentage
         /\ std.last.report.logged[2].den = 100
         /\ Len(std.last.report.line) \in {0, 3}

\* a probe naming the general-public standard resolved to no standard and a
\* sample was handled with --frequency 100 and a log file
C17_Witness ==
  /\ std.pc = "resolved" /\ std.name = NameGeneralPublic
  /\ std.standard = "None"
  /\ std.last.fn = "handle_data" /\ std.last.frequency = 100000
  /\ Len(std.last.report.line) = 3


\* C18: a start_measurement() call made while measurement_running is set
\* only passes its guard and returns: nothing is written, the flag stays
\* set and no thread is created.
C18_IdempotentStart ==
  (caller.op = "start" /\ caller.run0) =>
    /\ caller.pc \in {"start_guard", "idle"}
    /\ Len(written) = caller.w0
    /\ measurement_running
    /\ Cardinality(Started) = caller.t0

\* a second start_measurement() has returned while the loop the first one
\* started is inside the callback
C18_Witness ==
  /\ caller.op = "start" /\ caller.run0 /\ caller.pc = "idle"
  /\ caller.t0 = 1
  /\ \E t \in 1..MaxLoops : loops[t].pc = "callback"


\* C19: with the transport closed, no measurement loop is inside readline()
\* on it and no sample has been delivered to the callback since close()
\* closed it.
C19_NoUseAfterClose ==
  port = "closed" =>
    /\ \A t \in 1..MaxLoops : loops[t].pc # "reading"
    /\ Len(delivered) = caller.d0


\* C20: a callback that raises takes its loop back to the while test with
\* the flag and the delivered samples as they were; the loop is then alive at
\* its while test, and its next step with the flag set is to read the next
\* line.
C20_ConsumerFailureIsolation ==
  /\ [][\A t \in 1..MaxLoops :
          /\ (loops[t].pc = "callback" /\ loops'[t].cb = "raised") =>
               /\ loops'[t].pc = "while"
               /\ measurement_running' = measurement_running
               /\ delivered' = delivered
          /\ (loops[t].cb = "raised" /\ loops'[t] # loops[t]
                /\ measurement_running) =>
               loops'[t].pc = "read"]_vars
  /\ [](\A t \in 1..MaxLoops : loops[t].cb = "raised" => loops[t].pc = "while")

\* the callback raised on the second sample with the flag set, and the loop
\* is back at its while test
C20_Witness ==
  /\ measurement_running /\ port = "open"
  /\ Len(delivered) = 2
  /\ \E t \in 1..MaxLoops : loops[t].cb = "raised" /\ loops[t].pc = "while"


====
